---- MODULE Spec2Model ----
(***************************************************************************)
(* File storage and sharing server: the file registry, the blob store, the *)
(* share (grant) table, the activity log and the HTTP handlers of          *)
(* routes/files.ts, routes/shares.ts and routes/activity.ts that read and   *)
(* write them.                                                             *)
(*                                                                         *)
(* Spec     : every handler runs to completion before the next starts      *)
(*            (sequential use of the API).                                 *)
(* ConcSpec : the share, revoke and delete handlers are split at their      *)
(*            awaits, and requests interleave.                             *)
(* FaultSpec: the handlers that write, and a database call may throw.       *)
(***************************************************************************)
EXTENDS Integers, Sequences, FiniteSets, TLC

\* ------------------------------------------------------------------ bounds
MaxFiles == 2
MaxShares == 2
MaxTime == 2
MaxLog == 4
MaxReqs == 3
MaxFaultFiles == 1

\* --------------------------------------------------------------- constants
Users == {"u1", "u2"}
\* userEmail values a client can send: a registered user's email (named by the
\* user), an email no user row has, and a missing one.
UnknownEmail == "unknown"
MissingEmail == ""
Emails == Users \cup {UnknownEmail, MissingEmail}
\* req.body.role as the web client can send it
RequestRoles == {"viewer", "editor", "owner"}
NoRole == "none"
NoUser == "none"
\* an optional timestamp: {} is null, {t} is the time t
Expiries == {{}} \cup {{t} : t \in 0..MaxTime}

VARIABLES
    files,        \* file table: set of [id, ownerId, cloudinaryId]
    blobs,        \* Cloudinary: the public ids that hold bytes
    shares,       \* share table: set of rows
    log,          \* activity_log table, in insertion order
    now,          \* the clock (NOW(), new Date())
    nextFileId,   \* how many file ids nanoid() has produced
    nextShareId,  \* how many share ids nanoid() has produced
    reqs,         \* requests in flight (ConcSpec): id -> row
    resp          \* the last response sent

vars == <<files, blobs, shares, log, now, nextFileId, nextShareId, reqs, resp>>
store == <<files, blobs, shares, log, nextFileId, nextShareId>>

\* ---------------------------------------------------------------- schema
\* share row (schema/files.ts share table)
ShareRow(id, fileId, shareType, sharedWith, token, role, expiresAt, createdBy) ==
    [id |-> id, fileId |-> fileId, shareType |-> shareType,
     sharedWithUserId |-> sharedWith, token |-> token, role |-> role,
     expiresAt |-> expiresAt, createdBy |-> createdBy]

\* activity_log row
LogRow(fileId, userId, activityType, metadata) ==
    [fileId |-> fileId, userId |-> userId, activityType |-> activityType,
     metadata |-> metadata]

\* faulty variant: an upsert keyed on (file, user, type) replaces the earlier row
LogActivity_Upsert(lg, fileId, userId, activityType, metadata) ==
    Append(SelectSeq(lg, LAMBDA e : ~(e.fileId = fileId /\ e.userId = userId
                                      /\ e.activityType = activityType)),
           LogRow(fileId, userId, activityType, metadata))

\* faulty variant: the row is put first, as a query ordered by newest first would show it
LogActivity_Prepend(lg, fileId, userId, activityType, metadata) ==
    <<LogRow(fileId, userId, activityType, metadata)>> \o lg

\* logActivity: db.insert(activityLog)
LogActivity(lg, fileId, userId, activityType, metadata) ==
    Append(lg, LogRow(fileId, userId, activityType, metadata))

\* db.query.file.findFirst({ where: eq(file.id, id) }): the rows found (0 or 1)
FileRecord(id) == {f \in files : f.id = id}

\* faulty variant: the expiry filter is missing from the query
NotExpired_Always(s) == TRUE

\* or(isNull(share.expiresAt), sql`${share.expiresAt} > NOW()`)
NotExpired(s) == \A t \in s.expiresAt : t > now

\* hasShare query of GET /:id and GET /:id/download: the rows findFirst may return
HasShare(u, fileId) ==
    {s \in shares : s.fileId = fileId /\ s.sharedWithUserId = u /\ NotExpired(s)}

\* sharedWithUser query of GET /
SharedWithUser(u) ==
    {s \in shares : s.sharedWithUserId = u /\ NotExpired(s)}

\* faulty variant: the existing-share check finds nothing
ExistingShare_None(fileId, target) == {}

\* existingShare query of POST /:fileId/user
ExistingShare(fileId, target) ==
    {s \in shares : s.fileId = fileId /\ s.sharedWithUserId = target
                    /\ s.shareType = "user"}

\* shareRecord query of GET /link/:token
ShareByToken(token) ==
    {s \in shares : s.token = token /\ s.shareType = "link"}

\* faulty variant: the comparison is the wrong way round
LinkExpired_Reversed(s) == \E t \in s.expiresAt : t > now

\* shareRecord.expiresAt && new Date(shareRecord.expiresAt) < new Date()
LinkExpired(s) == \E t \in s.expiresAt : t < now

\* faulty variant: < for <=
ExpiryInPast_Strict(exp) == \E t \in exp : t < now

\* parsedDate <= new Date()
ExpiryInPast(exp) == \E t \in exp : t <= now

\* faulty variant: || for &&
AccessDenied_Or(isOwner, hasShare) == ~isOwner \/ hasShare = {}

\* if (!isOwner && !hasShare): the 403 gate of GET /:id and GET /:id/download
AccessDenied(isOwner, hasShare) == ~isOwner /\ hasShare = {}

\* faulty variant: the self-share check is missing
IsSelfShare_Never(sharedUserId, userId) == FALSE

\* if (sharedUser.id === req.user.id)
IsSelfShare(sharedUserId, userId) == sharedUserId = userId

\* faulty variant: the server accepts what the client's role select offers
AllowedRoles_WithOwner == {"viewer", "editor", "owner"}

\* const allowedRoles = ["viewer", "editor"]
AllowedRoles == {"viewer", "editor"}

\* fileRecord.ownerId of the row with this id
OwnerOfFile(fileId) == (CHOOSE f \in FileRecord(fileId) : TRUE).ownerId

\* db.query.user.findFirst({ where: eq(user.email, userEmail) })
UserByEmail(email) == {u \in Users : u = email}

\* faulty variant: share.fileId has no ON DELETE CASCADE
CascadeShares_None(ss, fileId) == ss

\* onDelete: "cascade" of share.fileId and activityLog.fileId
CascadeShares(ss, fileId) == {s \in ss : s.fileId # fileId}
CascadeLog(lg, fileId) == SelectSeq(lg, LAMBDA e : e.fileId # fileId)

\* faulty variant: tokens come from a small space and are issued again
NanoidToken_Reused == 1..(nextShareId + 1)

\* nanoid(32): a token never produced before, or (a collision) one a stored row holds
NanoidToken == {nextShareId + 1} \cup {s.token : s \in {x \in shares : x.shareType = "link"}}

\* ------------------------------------------------------------- outcomes
\* What one run of a handler does: the response and the tables it leaves.
Outcome(status, err, role, body, fs, bs, ss, lg, nf, ns) ==
    [status |-> status, err |-> err, role |-> role, body |-> body,
     files |-> fs, blobs |-> bs, shares |-> ss, log |-> lg,
     nextFileId |-> nf, nextShareId |-> ns]

\* a response that changes nothing
Reply(status, err) ==
    Outcome(status, err, NoRole, {}, files, blobs, shares, log, nextFileId, nextShareId)

ReplyRole(status, role, body) ==
    Outcome(status, "", role, body, files, blobs, shares, log, nextFileId, nextShareId)

\* POST /upload
Upload(u) ==
    LET id == nextFileId + 1 IN
    {Outcome(201, "", NoRole, {id},
             files \cup {[id |-> id, ownerId |-> u, cloudinaryId |-> id]},
             blobs \cup {id}, shares,
             LogActivity(log, id, u, "upload", <<>>),
             id, nextShareId)}

\* GET /
ListFiles(u) ==
    {ReplyRole(200, NoRole,
        [owned |-> {f.id : f \in {x \in files : x.ownerId = u}},
         shared |-> {<<s.fileId, s.role>> : s \in SharedWithUser(u)}])}

\* GET /:id
GetFile(u, id) ==
    IF FileRecord(id) = {} THEN {Reply(404, "File not found")}
    ELSE LET fileRecord == CHOOSE f \in FileRecord(id) : TRUE
             isOwner == fileRecord.ownerId = u
             hasShare == HasShare(u, fileRecord.id)
         IN  IF AccessDenied(isOwner, hasShare) THEN {Reply(403, "Access denied")}
             ELSE IF isOwner THEN {ReplyRole(200, "owner", {})}
             ELSE {ReplyRole(200, s.role, {}) : s \in hasShare}

\* faulty variant: the download is logged before access is checked
Download_LogsDenied(u, id) ==
    IF FileRecord(id) = {} THEN {Reply(404, "File not found")}
    ELSE LET fileRecord == CHOOSE f \in FileRecord(id) : TRUE IN
         {Outcome(IF AccessDenied(fileRecord.ownerId = u, HasShare(u, fileRecord.id))
                  THEN 403 ELSE 200,
                  "", NoRole, {fileRecord.id}, files, blobs, shares,
                  LogActivity(log, fileRecord.id, u, "download", <<>>),
                  nextFileId, nextShareId)}

\* GET /:id/download
Download(u, id) ==
    IF FileRecord(id) = {} THEN {Reply(404, "File not found")}
    ELSE LET fileRecord == CHOOSE f \in FileRecord(id) : TRUE
             isOwner == fileRecord.ownerId = u
             hasShare == HasShare(u, fileRecord.id)
         IN  IF AccessDenied(isOwner, hasShare) THEN {Reply(403, "Access denied")}
             ELSE {Outcome(200, "", NoRole, {fileRecord.id}, files, blobs, shares,
                           LogActivity(log, fileRecord.id, u, "download", <<>>),
                           nextFileId, nextShareId)}

\* faulty variant: a user with an editor share may delete too
DeleteFile_EditorMayDelete(u, id) ==
    IF FileRecord(id) = {} THEN {Reply(404, "File not found")}
    ELSE LET fileRecord == CHOOSE f \in FileRecord(id) : TRUE IN
         IF fileRecord.ownerId # u
            /\ ~ \E s \in HasShare(u, fileRecord.id) : s.role = "editor"
         THEN {Reply(403, "Only owner can delete")}
         ELSE {Outcome(200, "", NoRole, {}, files \ {fileRecord},
                       blobs \ {fileRecord.cloudinaryId},
                       CascadeShares(shares, id),
                       CascadeLog(LogActivity(log, fileRecord.id, u, "delete", <<>>), id),
                       nextFileId, nextShareId)}

\* DELETE /:id
DeleteFile(u, id) ==
    IF FileRecord(id) = {} THEN {Reply(404, "File not found")}
    ELSE LET fileRecord == CHOOSE f \in FileRecord(id) : TRUE IN
         IF fileRecord.ownerId # u THEN {Reply(403, "Only owner can delete")}
         ELSE {Outcome(200, "", NoRole, {}, files \ {fileRecord},
                       blobs \ {fileRecord.cloudinaryId},
                       CascadeShares(shares, id),
                       CascadeLog(LogActivity(log, fileRecord.id, u, "delete", <<>>), id),
                       nextFileId, nextShareId)}

\* POST /:fileId/user
ShareWithUser(u, fileId, userEmail, role, expiresAt) ==
    IF userEmail = MissingEmail THEN {Reply(400, "User email is required")}
    ELSE IF role \notin AllowedRoles THEN {Reply(400, "Invalid role")}
    ELSE IF FileRecord(fileId) = {} THEN {Reply(404, "File not found")}
    ELSE LET fileRecord == CHOOSE f \in FileRecord(fileId) : TRUE IN
    IF fileRecord.ownerId # u THEN {Reply(403, "Only file owner can share files")}
    ELSE IF UserByEmail(userEmail) = {} THEN {Reply(404, "User not found")}
    ELSE LET sharedUser == CHOOSE x \in UserByEmail(userEmail) : TRUE IN
    IF IsSelfShare(sharedUser, u) THEN {Reply(400, "Cannot share with yourself")}
    ELSE IF ExistingShare(fileId, sharedUser) # {}
         THEN {Reply(400, "File already shared with this user")}
    ELSE IF ExpiryInPast(expiresAt)
         THEN {Reply(400, "Expiration date must be in the future")}
    ELSE LET id == nextShareId + 1 IN
         {Outcome(201, "", role, {id}, files, blobs,
                  shares \cup {ShareRow(id, fileId, "user", sharedUser, 0, role,
                                        expiresAt, u)},
                  LogActivity(log, fileId, u, "share", <<"Shared with", userEmail>>),
                  nextFileId, id)}

\* faulty variant: share.token has no unique index
GenerateLink_NoUniqueToken(u, fileId, expiresAt) ==
    IF FileRecord(fileId) = {} THEN {Reply(404, "File not found")}
    ELSE LET fileRecord == CHOOSE f \in FileRecord(fileId) : TRUE IN
    IF fileRecord.ownerId # u
    THEN {Reply(403, "Only file owner can generate share links")}
    ELSE IF ExpiryInPast(expiresAt)
         THEN {Reply(400, "Expiration date must be in the future")}
    ELSE LET id == nextShareId + 1 IN
         {Outcome(201, "", "viewer", {token}, files, blobs,
                  shares \cup {ShareRow(id, fileId, "link", NoUser, token,
                                        "viewer", expiresAt, u)},
                  LogActivity(log, fileId, u, "share", <<"Generated share link">>),
                  nextFileId, id)
          : token \in NanoidToken}

\* faulty variant: the owner check is missing
GenerateLink_AnyUser(u, fileId, expiresAt) ==
    IF FileRecord(fileId) = {} THEN {Reply(404, "File not found")}
    ELSE IF ExpiryInPast(expiresAt)
         THEN {Reply(400, "Expiration date must be in the future")}
    ELSE LET id == nextShareId + 1 IN
         {IF \E s \in shares : s.token = token
          THEN Reply(500, "Share link generation failed")
          ELSE Outcome(201, "", "viewer", {token}, files, blobs,
                       shares \cup {ShareRow(id, fileId, "link", NoUser, token,
                                             "viewer", expiresAt, u)},
                       LogActivity(log, fileId, u, "share", <<"Generated share link">>),
                       nextFileId, id)
          : token \in NanoidToken}

\* POST /:fileId/link
GenerateLink(u, fileId, expiresAt) ==
    IF FileRecord(fileId) = {} THEN {Reply(404, "File not found")}
    ELSE LET fileRecord == CHOOSE f \in FileRecord(fileId) : TRUE IN
    IF fileRecord.ownerId # u
    THEN {Reply(403, "Only file owner can generate share links")}
    ELSE IF ExpiryInPast(expiresAt)
         THEN {Reply(400, "Expiration date must be in the future")}
    ELSE LET id == nextShareId + 1 IN
         {IF \E s \in shares : s.token = token
          THEN Reply(500, "Share link generation failed")
          ELSE Outcome(201, "", "viewer", {token}, files, blobs,
                       shares \cup {ShareRow(id, fileId, "link", NoUser, token,
                                             "viewer", expiresAt, u)},
                       LogActivity(log, fileId, u, "share", <<"Generated share link">>),
                       nextFileId, id)
          : token \in NanoidToken}

\* faulty variant: the download is logged for the link's creator
AccessLink_LogsCreator(u, token) ==
    IF ShareByToken(token) = {} THEN {Reply(404, "Share link not found")}
    ELSE LET shareRecord == CHOOSE s \in ShareByToken(token) : TRUE IN
         IF LinkExpired(shareRecord) THEN {Reply(403, "Share link has expired")}
         ELSE {Outcome(200, "", shareRecord.role, {shareRecord.fileId},
                       files, blobs, shares,
                       LogActivity(log, shareRecord.fileId, shareRecord.createdBy,
                                   "download", <<>>),
                       nextFileId, nextShareId)}

\* GET /link/:token
AccessLink(u, token) ==
    IF ShareByToken(token) = {} THEN {Reply(404, "Share link not found")}
    ELSE LET shareRecord == CHOOSE s \in ShareByToken(token) : TRUE IN
         IF LinkExpired(shareRecord) THEN {Reply(403, "Share link has expired")}
         ELSE {Outcome(200, "", shareRecord.role, {shareRecord.fileId},
                       files, blobs, shares,
                       LogActivity(log, shareRecord.fileId, u, "download", <<>>),
                       nextFileId, nextShareId)}

\* faulty variant: expired shares are filtered out, as the access queries do
ListShares_ActiveOnly(u, fileId) ==
    IF FileRecord(fileId) = {} THEN {Reply(404, "File not found")}
    ELSE LET fileRecord == CHOOSE f \in FileRecord(fileId) : TRUE IN
    IF fileRecord.ownerId # u THEN {Reply(403, "Only file owner can view shares")}
    ELSE {ReplyRole(200, NoRole, {s \in shares : s.fileId = fileId /\ NotExpired(s)})}

\* GET /:fileId/shares
ListShares(u, fileId) ==
    IF FileRecord(fileId) = {} THEN {Reply(404, "File not found")}
    ELSE LET fileRecord == CHOOSE f \in FileRecord(fileId) : TRUE IN
    IF fileRecord.ownerId # u THEN {Reply(403, "Only file owner can view shares")}
    ELSE {ReplyRole(200, NoRole, {s \in shares : s.fileId = fileId})}

\* faulty variant: every share of the file is deleted
RevokeShare_AllOfFile(u, shareId) ==
    LET found == {s \in shares : s.id = shareId} IN
    IF found = {} THEN {Reply(404, "Share not found")}
    ELSE LET shareRecord == CHOOSE s \in found : TRUE
             owner == CHOOSE f \in FileRecord(shareRecord.fileId) : TRUE
         IN  IF owner.ownerId # u
             THEN {Reply(403, "Only file owner can revoke shares")}
             ELSE {Outcome(200, "", NoRole, {}, files, blobs,
                           {s \in shares : s.fileId # shareRecord.fileId},
                           LogActivity(log, shareRecord.fileId, u, "unshare",
                                       <<"Revoked share", ToString(shareId)>>),
                           nextFileId, nextShareId)}

\* faulty variant: the row is not deleted (the unshare is still logged)
RevokeShare_KeepsRow(u, shareId) ==
    LET found == {s \in shares : s.id = shareId} IN
    IF found = {} THEN {Reply(404, "Share not found")}
    ELSE LET shareRecord == CHOOSE s \in found : TRUE
             owner == CHOOSE f \in FileRecord(shareRecord.fileId) : TRUE
         IN  IF owner.ownerId # u
             THEN {Reply(403, "Only file owner can revoke shares")}
             ELSE {Outcome(200, "", NoRole, {}, files, blobs, shares,
                           LogActivity(log, shareRecord.fileId, u, "unshare",
                                       <<"Revoked share", ToString(shareId)>>),
                           nextFileId, nextShareId)}

\* DELETE /:shareId
RevokeShare(u, shareId) ==
    LET found == {s \in shares : s.id = shareId} IN
    IF found = {} THEN {Reply(404, "Share not found")}
    ELSE LET shareRecord == CHOOSE s \in found : TRUE
             owner == CHOOSE f \in FileRecord(shareRecord.fileId) : TRUE
         IN  IF owner.ownerId # u
             THEN {Reply(403, "Only file owner can revoke shares")}
             ELSE {Outcome(200, "", NoRole, {}, files, blobs,
                           shares \ {shareRecord},
                           LogActivity(log, shareRecord.fileId, u, "unshare",
                                       <<"Revoked share", ToString(shareId)>>),
                           nextFileId, nextShareId)}

\* orderBy: [desc(activityLog.createdAt)]: newest first
NewestFirst(lg) == [i \in 1..Len(lg) |-> lg[Len(lg) + 1 - i]]

\* limit: n
Limit(lg, n) == SubSeq(lg, 1, IF Len(lg) < n THEN Len(lg) ELSE n)
UserActivityLimit == 50
AllActivityLimit == 100

\* faulty variant: the owner check is missing
FileActivity_AnyUser(u, fileId) ==
    IF FileRecord(fileId) = {} THEN {Reply(404, "File not found")}
    ELSE {ReplyRole(200, NoRole,
                    NewestFirst(SelectSeq(log, LAMBDA e : e.fileId = fileId)))}

\* GET /activity/files/:fileId
FileActivity(u, fileId) ==
    IF FileRecord(fileId) = {} THEN {Reply(404, "File not found")}
    ELSE LET fileRecord == CHOOSE f \in FileRecord(fileId) : TRUE IN
    IF fileRecord.ownerId # u
    THEN {Reply(403, "Only file owner can view activity logs")}
    ELSE {ReplyRole(200, NoRole,
                    NewestFirst(SelectSeq(log, LAMBDA e : e.fileId = fileId)))}

\* GET /activity/user
UserActivity(u) ==
    {ReplyRole(200, NoRole,
               Limit(NewestFirst(SelectSeq(log, LAMBDA e : e.userId = u)),
                     UserActivityLimit))}

\* GET /activity
AllActivity(u) ==
    LET fileIds == {f.id : f \in {x \in files : x.ownerId = u}} IN
    IF fileIds = {} THEN {ReplyRole(200, NoRole, <<>>)}
    ELSE {ReplyRole(200, NoRole,
                    Limit(NewestFirst(SelectSeq(log, LAMBDA e : e.fileId \in fileIds)),
                          AllActivityLimit))}

\* ---------------------------------------------------------------- actions
NoResp == [op |-> "none", user |-> NoUser, arg |-> 0, status |-> 0, err |-> "",
           role |-> NoRole, body |-> {}]

\* a request slot with no request in it
IdleReq == [pc |-> "idle", op |-> "none", user |-> NoUser, arg |-> 0,
            fileId |-> 0, target |-> NoUser, role |-> NoRole, expiresAt |-> {},
            status |-> 0, err |-> ""]

Init ==
    /\ files = {}
    /\ blobs = {}
    /\ shares = {}
    /\ log = <<>>
    /\ now = 0
    /\ nextFileId = 0
    /\ nextShareId = 0
    /\ reqs = [i \in 1..MaxReqs |-> IdleReq]
    /\ resp = NoResp

\* the tables after outcome r, within the model's bounds, and the response sent
Apply(op, u, arg, r) ==
    /\ r.nextFileId <= MaxFiles
    /\ r.nextShareId <= MaxShares
    /\ Len(r.log) <= MaxLog
    /\ files' = r.files
    /\ blobs' = r.blobs
    /\ shares' = r.shares
    /\ log' = r.log
    /\ nextFileId' = r.nextFileId
    /\ nextShareId' = r.nextShareId
    /\ resp' = [op |-> op, user |-> u, arg |-> arg, status |-> r.status,
                err |-> r.err, role |-> r.role, body |-> r.body]
    /\ UNCHANGED <<now, reqs>>

\* no response is waiting to be taken: the next request can be handled
Idle == resp = NoResp

FileParams == 1..MaxFiles
ShareParams == 1..MaxShares


DoUpload ==
    /\ Idle
    /\ \E u \in Users : \E r \in Upload(u) : Apply("upload", u, 0, r)

DoListFiles ==
    /\ Idle
    /\ \E u \in Users : \E r \in ListFiles(u) : Apply("listFiles", u, 0, r)

DoGetFile ==
    /\ Idle
    /\ \E u \in Users, id \in FileParams : \E r \in GetFile(u, id) : Apply("getFile", u, id, r)

DoDownload ==
    /\ Idle
    /\ \E u \in Users, id \in FileParams : \E r \in Download(u, id) : Apply("download", u, id, r)

DoDeleteFile ==
    /\ Idle
    /\ \E u \in Users, id \in FileParams : \E r \in DeleteFile(u, id) :
           Apply("deleteFile", u, id, r)

DoShareWithUser ==
    /\ Idle
    /\ \E u \in Users, id \in FileParams :
           \E r \in UNION {ShareWithUser(u, id, e, ro, x) :
                               e \in Emails, ro \in RequestRoles, x \in Expiries} :
               Apply("shareWithUser", u, id, r)

DoGenerateLink ==
    /\ Idle
    /\ \E u \in Users, id \in FileParams :
           \E r \in UNION {GenerateLink(u, id, x) : x \in Expiries} :
               Apply("generateLink", u, id, r)

DoAccessLink ==
    /\ Idle
    /\ \E u \in Users, t \in ShareParams : \E r \in AccessLink(u, t) :
           Apply("accessLink", u, t, r)

DoListShares ==
    /\ Idle
    /\ \E u \in Users, id \in FileParams : \E r \in ListShares(u, id) :
           Apply("listShares", u, id, r)

DoRevokeShare ==
    /\ Idle
    /\ \E u \in Users, id \in ShareParams : \E r \in RevokeShare(u, id) :
           Apply("revokeShare", u, id, r)

DoFileActivity ==
    /\ Idle
    /\ \E u \in Users, id \in FileParams : \E r \in FileActivity(u, id) :
           Apply("fileActivity", u, id, r)

DoUserActivity ==
    /\ Idle
    /\ \E u \in Users : \E r \in UserActivity(u) : Apply("userActivity", u, 0, r)

DoAllActivity ==
    /\ Idle
    /\ \E u \in Users : \E r \in AllActivity(u) : Apply("allActivity", u, 0, r)

\* the client takes the response; the next request can be sent
Ack ==
    /\ resp # NoResp
    /\ resp' = NoResp
    /\ UNCHANGED <<store, now, reqs>>

\* time passes
Tick ==
    /\ Idle
    /\ now < MaxTime
    /\ now' = now + 1
    /\ UNCHANGED <<store, reqs, resp>>

Next ==
    \/ DoUpload
    \/ DoListFiles
    \/ DoGetFile
    \/ DoDownload
    \/ DoDeleteFile
    \/ DoShareWithUser
    \/ DoGenerateLink
    \/ DoAccessLink
    \/ DoListShares
    \/ DoRevokeShare
    \/ DoFileActivity
    \/ DoUserActivity
    \/ DoAllActivity
    \/ Ack
    \/ Tick

Spec == Init /\ [][Next]_vars

\* ------------------------------------------------- interleaved handlers
\* Each step below is the code of a handler from one await to the next; between
\* two steps of a request any step of another request may run.

\* ------------------------------------------------------- failing writes
\* the clock stands still while the requests of ConcSpec and FaultSpec are
\* handled: an expiry a request carries is null, or not in the future
ConcExpiries == {{}, {now}}

\* error.message of what a failed database call throws
DbError == "db error"

\* A handler whose logActivity throws after its write to the share table: the
\* catch block answers 500; the write stays, no activity row is inserted.
LogActivityThrows(r) ==
    [r EXCEPT !.status = 500, !.err = DbError, !.role = NoRole, !.body = {},
              !.log = log]

\* POST /:fileId/user, logActivity (line 115) throws
ShareWithUserLogFails(u, fileId, userEmail, role, expiresAt) ==
    {LogActivityThrows(r) :
        r \in {x \in ShareWithUser(u, fileId, userEmail, role, expiresAt) : x.status = 201}}

\* POST /:fileId/link, logActivity (line 201) throws
GenerateLinkLogFails(u, fileId, expiresAt) ==
    {LogActivityThrows(r) : r \in {x \in GenerateLink(u, fileId, expiresAt) : x.status = 201}}

\* DELETE /:shareId, logActivity (line 382) throws
RevokeShareLogFails(u, shareId) ==
    {LogActivityThrows(r) : r \in {x \in RevokeShare(u, shareId) : x.status = 200}}

\* DELETE /:id, db.delete(file) (line 465) throws: the blob is destroyed and the
\* delete is logged, the file row and what hangs on it stay
DeleteFileRowFails(u, id) ==
    {Outcome(500, DbError, NoRole, {}, files, r.blobs, shares,
             LogActivity(log, id, u, "delete", <<>>), nextFileId, nextShareId) :
        r \in {x \in DeleteFile(u, id) : x.status = 200}}

\* error.message of a failed fs or Cloudinary call
FsError == "fs error"
CloudinaryError == "cloudinary error"

\* POST /upload, logActivity (line 69) throws after the file row was inserted:
\* the inner catch destroys the blob and rethrows, the outer catch answers 500
UploadLogFails(u) ==
    {Outcome(500, DbError, NoRole, {}, r.files, blobs, shares, log,
             r.nextFileId, nextShareId) : r \in Upload(u)}

\* POST /upload, fs.unlinkSync (line 72) throws after the row and the activity
\* row were inserted: the same catch blocks run
UploadUnlinkFails(u) ==
    {Outcome(500, FsError, NoRole, {}, r.files, blobs, shares, r.log,
             r.nextFileId, nextShareId) : r \in Upload(u)}

\* faulty variant: the delete is logged before the blob is destroyed
DeleteFileBlobFails_LoggedFirst(u, id) ==
    {Outcome(500, CloudinaryError, NoRole, {}, files, blobs, shares,
             LogActivity(log, id, u, "delete", <<>>), nextFileId, nextShareId) :
        r \in {x \in DeleteFile(u, id) : x.status = 200}}

\* DELETE /:id, cloudinary.uploader.destroy (line 459) throws: nothing was
\* written yet
DeleteFileBlobFails(u, id) ==
    {Reply(500, CloudinaryError) : r \in {x \in DeleteFile(u, id) : x.status = 200}}

DoUploadLogFails ==
    /\ Idle
    /\ nextFileId < MaxFaultFiles
    /\ \E u \in Users : \E r \in UploadLogFails(u) : Apply("upload", u, 0, r)

DoUploadUnlinkFails ==
    /\ Idle
    /\ nextFileId < MaxFaultFiles
    /\ \E u \in Users : \E r \in UploadUnlinkFails(u) : Apply("upload", u, 0, r)

DoDeleteFileBlobFails ==
    /\ Idle
    /\ \E u \in Users, id \in FileParams : \E r \in DeleteFileBlobFails(u, id) :
           Apply("deleteFile", u, id, r)

DoShareWithUserLogFails ==
    /\ Idle
    /\ \E u \in Users, id \in FileParams :
           \E r \in UNION {ShareWithUserLogFails(u, id, e, ro, x) :
                               e \in Emails, ro \in RequestRoles, x \in ConcExpiries} :
               Apply("shareWithUser", u, id, r)

DoGenerateLinkLogFails ==
    /\ Idle
    /\ \E u \in Users, id \in FileParams :
           \E r \in UNION {GenerateLinkLogFails(u, id, x) : x \in ConcExpiries} :
               Apply("generateLink", u, id, r)

DoRevokeShareLogFails ==
    /\ Idle
    /\ \E u \in Users, id \in ShareParams : \E r \in RevokeShareLogFails(u, id) :
           Apply("revokeShare", u, id, r)

DoDeleteFileRowFails ==
    /\ Idle
    /\ \E u \in Users, id \in FileParams : \E r \in DeleteFileRowFails(u, id) :
           Apply("deleteFile", u, id, r)

\* the handlers that write, each with and without the failure, at one time
\* POST /:fileId/user and POST /:fileId/link while the clock stands still
FaultShareWithUser ==
    /\ Idle
    /\ \E u \in Users, id \in FileParams :
           \E r \in UNION {ShareWithUser(u, id, e, ro, x) :
                               e \in Emails, ro \in RequestRoles, x \in ConcExpiries} :
               Apply("shareWithUser", u, id, r)

FaultGenerateLink ==
    /\ Idle
    /\ \E u \in Users, id \in FileParams :
           \E r \in UNION {GenerateLink(u, id, x) : x \in ConcExpiries} :
               Apply("generateLink", u, id, r)

\* POST /upload, within the number of files FaultSpec follows
FaultUpload == nextFileId < MaxFaultFiles /\ DoUpload

FaultNext ==
    \/ FaultUpload
    \/ DoDeleteFile
    \/ FaultShareWithUser
    \/ FaultGenerateLink
    \/ DoRevokeShare
    \/ Ack
    \/ DoShareWithUserLogFails
    \/ DoGenerateLinkLogFails
    \/ DoRevokeShareLogFails
    \/ DoDeleteFileRowFails
    \/ DoUploadLogFails
    \/ DoUploadUnlinkFails
    \/ DoDeleteFileBlobFails

FaultSpec == Init /\ [][FaultNext]_vars

\* the lowest unused slot takes the next request (slots are interchangeable);
\* MaxReqs requests are handled in all
Free(i) == reqs[i].pc = "idle" /\ \A j \in 1..(i - 1) : reqs[j].pc # "idle"

\* the request's parameters and locals, at its first await
Begin(i, op, u, arg, fileId, target, role, expiresAt, pc) ==
    reqs' = [reqs EXCEPT ![i] = [pc |-> pc, op |-> op, user |-> u, arg |-> arg,
                                 fileId |-> fileId, target |-> target,
                                 role |-> role, expiresAt |-> expiresAt,
                                 status |-> 0, err |-> ""]]

\* res.status(status).json(...): the request is over
Respond(i, status, err) ==
    reqs' = [reqs EXCEPT ![i] = [IdleReq EXCEPT !.pc = "done", !.op = reqs[i].op,
                                  !.arg = reqs[i].arg, !.target = reqs[i].target,
                                  !.status = status, !.err = err]]

\* a request refused before its second await
Refuse(i, op, u, arg, status, err) ==
    reqs' = [reqs EXCEPT ![i] = [IdleReq EXCEPT !.pc = "done", !.op = op,
                                  !.status = status, !.err = err]]

Goto(i, pc) == reqs' = [reqs EXCEPT ![i].pc = pc]

\* faulty variant: the tables have no foreign key on file_id
FileExists_NoForeignKey(fileId) == TRUE

\* foreign key share.file_id / activity_log.file_id -> file.id
FileExists(fileId) == \E f \in files : f.id = fileId

\* POST /upload (no other request reads what it writes before it is done)
ConcUpload ==
    /\ \E u \in Users : \E r \in Upload(u) :
          /\ r.nextFileId <= MaxFiles /\ Len(r.log) <= MaxLog
          /\ files' = r.files /\ blobs' = r.blobs /\ log' = r.log
          /\ nextFileId' = r.nextFileId
    /\ UNCHANGED <<shares, nextShareId, now, reqs, resp>>

\* POST /:fileId/user, lines 36-60: the body is read and the role validated,
\* then the file row is read and the owner checked
ShareStart(i) ==
    /\ Free(i)
    /\ \E u \in Users, id \in FileParams, e \in Emails, ro \in RequestRoles,
          x \in ConcExpiries :
          IF e = MissingEmail
          THEN Refuse(i, "shareWithUser", u, id, 400, "User email is required")
          ELSE IF ro \notin AllowedRoles
          THEN Refuse(i, "shareWithUser", u, id, 400, "Invalid role")
          ELSE IF FileRecord(id) = {}
          THEN Refuse(i, "shareWithUser", u, id, 404, "File not found")
          ELSE IF OwnerOfFile(id) # u
          THEN Refuse(i, "shareWithUser", u, id, 403, "Only file owner can share files")
          ELSE Begin(i, "shareWithUser", u, id, id, e, ro, x, "shareUser")
    /\ UNCHANGED <<store, now, resp>>

\* lines 62-72: the user row is read, a share with oneself refused
ShareUser(i) ==
    /\ reqs[i].pc = "shareUser"
    /\ IF UserByEmail(reqs[i].target) = {} THEN Respond(i, 404, "User not found")
       ELSE IF \E x \in UserByEmail(reqs[i].target) : IsSelfShare(x, reqs[i].user)
            THEN Respond(i, 400, "Cannot share with yourself")
            ELSE Goto(i, "shareExisting")
    /\ UNCHANGED <<store, now, resp>>

\* lines 74-99: the existing share is looked for, the expiry validated
ShareExisting(i) ==
    /\ reqs[i].pc = "shareExisting"
    /\ IF ExistingShare(reqs[i].fileId, reqs[i].target) # {}
       THEN Respond(i, 400, "File already shared with this user")
       ELSE IF ExpiryInPast(reqs[i].expiresAt)
            THEN Respond(i, 400, "Expiration date must be in the future")
            ELSE Goto(i, "shareInsert")
    /\ UNCHANGED <<store, now, resp>>

\* lines 101-113: the row is inserted (a missing file row fails the foreign key)
ShareInsert(i) ==
    /\ reqs[i].pc = "shareInsert"
    /\ IF ~FileExists(reqs[i].fileId)
       THEN /\ Respond(i, 500, DbError)
            /\ UNCHANGED <<shares, nextShareId>>
       ELSE /\ nextShareId < MaxShares
            /\ nextShareId' = nextShareId + 1
            /\ shares' = shares \cup
                  {ShareRow(nextShareId + 1, reqs[i].fileId, "user", reqs[i].target,
                            0, reqs[i].role, reqs[i].expiresAt, reqs[i].user)}
            /\ Goto(i, "shareLog")
    /\ UNCHANGED <<files, blobs, log, nextFileId, now, resp>>

\* lines 115-136: the share is logged and 201 sent
ShareLog(i) ==
    /\ reqs[i].pc = "shareLog"
    /\ IF ~FileExists(reqs[i].fileId)
       THEN Respond(i, 500, DbError) /\ UNCHANGED log
       ELSE /\ Len(log) < MaxLog
            /\ log' = LogActivity(log, reqs[i].fileId, reqs[i].user, "share",
                                  <<"Shared with", reqs[i].target>>)
            /\ Respond(i, 201, "")
    /\ UNCHANGED <<files, blobs, shares, nextFileId, nextShareId, now, resp>>

\* DELETE /:shareId, lines 358-378: the share is read with its file
RevokeStart(i) ==
    /\ Free(i)
    /\ \E u \in Users, id \in ShareParams :
          LET found == {s \in shares : s.id = id} IN
          IF found = {}
          THEN Refuse(i, "revokeShare", u, id, 404, "Share not found")
          ELSE LET shareRecord == CHOOSE s \in found : TRUE IN
               IF OwnerOfFile(shareRecord.fileId) # u
               THEN Refuse(i, "revokeShare", u, id, 403,
                           "Only file owner can revoke shares")
               ELSE Begin(i, "revokeShare", u, id, shareRecord.fileId, NoUser,
                          NoRole, {}, "revokeDelete")
    /\ UNCHANGED <<store, now, resp>>

\* line 380: db.delete(share).where(eq(share.id, shareId))
RevokeDelete(i) ==
    /\ reqs[i].pc = "revokeDelete"
    /\ shares' = {s \in shares : s.id # reqs[i].arg}
    /\ Goto(i, "revokeLog")
    /\ UNCHANGED <<files, blobs, log, nextFileId, nextShareId, now, resp>>

\* lines 382-392: the unshare is logged and 200 sent
RevokeLog(i) ==
    /\ reqs[i].pc = "revokeLog"
    /\ IF ~FileExists(reqs[i].fileId)
       THEN Respond(i, 500, DbError) /\ UNCHANGED log
       ELSE /\ Len(log) < MaxLog
            /\ log' = LogActivity(log, reqs[i].fileId, reqs[i].user, "unshare",
                                  <<"Revoked share", ToString(reqs[i].arg)>>)
            /\ Respond(i, 200, "")
    /\ UNCHANGED <<files, blobs, shares, nextFileId, nextShareId, now, resp>>

\* DELETE /:id, lines 421-436: the file row is read and the owner checked
DeleteStart(i) ==
    /\ Free(i)
    /\ \E u \in Users, id \in FileParams :
          IF FileRecord(id) = {}
          THEN Refuse(i, "deleteFile", u, id, 404, "File not found")
          ELSE IF OwnerOfFile(id) # u
          THEN Refuse(i, "deleteFile", u, id, 403, "Only owner can delete")
          ELSE Begin(i, "deleteFile", u, id, id, NoUser, NoRole, {}, "deleteLog")
    /\ UNCHANGED <<store, now, resp>>

\* lines 459-463: the blob is destroyed and the delete logged (a missing file
\* row fails the foreign key of the activity row)
DeleteLog(i) ==
    /\ reqs[i].pc = "deleteLog"
    /\ blobs' = blobs \ {reqs[i].fileId}
    /\ IF ~FileExists(reqs[i].fileId)
       THEN Respond(i, 500, DbError) /\ UNCHANGED log
       ELSE /\ Len(log) < MaxLog
            /\ log' = LogActivity(log, reqs[i].fileId, reqs[i].user, "delete", <<>>)
            /\ Goto(i, "deleteRow")
    /\ UNCHANGED <<files, shares, nextFileId, nextShareId, now, resp>>

\* lines 465-467: the file row is deleted, with the rows that reference it
DeleteRow(i) ==
    /\ reqs[i].pc = "deleteRow"
    /\ files' = {f \in files : f.id # reqs[i].fileId}
    /\ shares' = CascadeShares(shares, reqs[i].fileId)
    /\ log' = CascadeLog(log, reqs[i].fileId)
    /\ Respond(i, 200, "")
    /\ UNCHANGED <<blobs, nextFileId, nextShareId, now, resp>>

ConcNext ==
    \/ ConcUpload
    \/ \E i \in 1..MaxReqs :
          \/ ShareStart(i)
          \/ ShareUser(i)
          \/ ShareExisting(i)
          \/ ShareInsert(i)
          \/ ShareLog(i)
          \/ RevokeStart(i)
          \/ RevokeDelete(i)
          \/ RevokeLog(i)
          \/ DeleteStart(i)
          \/ DeleteLog(i)
          \/ DeleteRow(i)

ConcSpec == Init /\ [][ConcNext]_vars

\* ------------------------------------------------------------- properties
Statuses(outcomes) == {r.status : r \in outcomes}
Unchanged(r) ==
    /\ r.files = files /\ r.blobs = blobs /\ r.shares = shares /\ r.log = log
    /\ r.nextFileId = nextFileId /\ r.nextShareId = nextShareId
FileLog(lg, fileId) == SelectSeq(lg, LAMBDA e : e.fileId = fileId)
UserShares == {s \in shares : s.shareType = "user"}
LinkShares == {s \in shares : s.shareType = "link"}
\* the optional timestamp is set and before now
InPast(expiresAt) == \E t \in expiresAt : t < now

\* C1: for every existing file, in every reachable state of the share table,
\* GET /:id by the file's owner answers 200 with role "owner" and
\* GET /:id/download by the owner answers 200, whatever shares of the file are
\* stored, expired or revoked; and no response to the owner says otherwise.
C1_OwnerAlwaysAllowed ==
    /\ \A f \in files :
          /\ \A r \in GetFile(f.ownerId, f.id) : r.status = 200 /\ r.role = "owner"
          /\ \A r \in Download(f.ownerId, f.id) : r.status = 200
    /\ \A f \in files :
          (resp.op \in {"getFile", "download"} /\ resp.arg = f.id /\ resp.user = f.ownerId)
          => /\ resp.status = 200
             /\ resp.op = "getFile" => resp.role = "owner"

\* the owner reads a file that has an expired direct share and a live share too
C1_Witness ==
    /\ resp.op = "getFile" /\ resp.status = 200 /\ resp.role = "owner"
    /\ \E s \in UserShares : s.fileId = resp.arg /\ InPast(s.expiresAt)
    /\ \E s \in shares : s.fileId = resp.arg /\ ~InPast(s.expiresAt)

\* C5: a link share whose expiresAt is before now: GET /link/:token answers 403
\* "Share link has expired" for every user (never 200, never 404) and writes no
\* activity row.
C5_ExpiredLinkDenied ==
    /\ \A s \in LinkShares : InPast(s.expiresAt) =>
          \A u \in Users : \A r \in AccessLink(u, s.token) :
              r.status = 403 /\ r.err = "Share link has expired" /\ Unchanged(r)
    /\ \A s \in LinkShares :
          (resp.op = "accessLink" /\ resp.arg = s.token /\ InPast(s.expiresAt))
          => resp.status = 403 /\ resp.err = "Share link has expired"

C5_Witness ==
    /\ resp.op = "accessLink" /\ resp.status = 403
    /\ \E s \in LinkShares : s.token = resp.arg /\ InPast(s.expiresAt)

\* C6: when the only share rows for (file, user) have expired, GET /:id and
\* GET /:id/download answer 403 for that user and change nothing, and GET / does
\* not list the file as shared with the user, although the row is still stored.
C6_ExpiredShareInert ==
    \A s \in UserShares :
        (\A o \in shares :
            (o.fileId = s.fileId /\ o.sharedWithUserId = s.sharedWithUserId)
            => InPast(o.expiresAt)) =>
            /\ s \in shares
            /\ \A r \in GetFile(s.sharedWithUserId, s.fileId) :
                  r.status = 403 /\ Unchanged(r)
            /\ \A r \in Download(s.sharedWithUserId, s.fileId) :
                  r.status = 403 /\ Unchanged(r)
            /\ \A r \in ListFiles(s.sharedWithUserId) :
                  \A e \in r.body.shared : e[1] # s.fileId

C6_Witness ==
    /\ resp.op = "download" /\ resp.status = 403
    /\ \E s \in UserShares :
          s.fileId = resp.arg /\ s.sharedWithUserId = resp.user /\ InPast(s.expiresAt)

\* a share that counts for access: no expiry, or an expiry in the future
Active(s) == s.expiresAt = {} \/ \E t \in s.expiresAt : t > now
GrantableRoles == {"viewer", "editor"}
\* the response just sent is the success of DELETE /:shareId
Revoked == resp'.op = "revokeShare" /\ resp'.status = 200

C2_ActiveGrantAllowed ==
    \A s \in UserShares : Active(s) =>
        /\ GetFile(s.sharedWithUserId, s.fileId) # {}
        /\ \A r \in GetFile(s.sharedWithUserId, s.fileId) :
              r.status = 200 /\ r.role = s.role
        /\ \A r \in Download(s.sharedWithUserId, s.fileId) : r.status = 200
        /\ (resp.op = "getFile" /\ resp.user = s.sharedWithUserId /\ resp.arg = s.fileId)
           => resp.status = 200 /\ resp.role = s.role

C2_RevokedDenied ==
    Revoked => \A g \in UserShares : g.id = resp'.arg =>
        /\ g \notin shares'
        /\ (Statuses(GetFile(g.sharedWithUserId, g.fileId)) = {403})'

C2_DeniedUntilNewGrant ==
    \A u \in Users, f \in FileParams :
        (Statuses(GetFile(u, f)) = {403} /\ (Statuses(GetFile(u, f)) # {403})') =>
            \/ /\ resp'.op = "shareWithUser" /\ resp'.status = 201 /\ resp'.arg = f
               /\ \E s \in shares' \ shares : s.sharedWithUserId = u /\ s.fileId = f
            \/ /\ resp'.op = "deleteFile" /\ resp'.status = 200 /\ resp'.arg = f
               /\ (Statuses(GetFile(u, f)) = {404})'

\* C2: for every stored direct share that is not expired, GET /:id by its
\* target answers 200 with the share's role (and download answers 200); a
\* successful DELETE /:shareId removes the row and leaves the target with 403;
\* and a 403 for (user, file) stays a 403 in every later state until a new
\* share for that user and file is inserted (or the file itself is deleted,
\* after which the answer is 404: never 200).
C2_GrantThenRevoke ==
    []C2_ActiveGrantAllowed /\ [][C2_RevokedDenied /\ C2_DeniedUntilNewGrant]_vars

\* the target asks for the file after the share with them was revoked: 403
C2_Witness ==
    /\ resp.op = "getFile" /\ resp.status = 403
    /\ \E i, j \in 1..Len(log) :
          /\ i < j
          /\ log[i] = LogRow(resp.arg, OwnerOfFile(resp.arg), "share",
                             <<"Shared with", resp.user>>)
          /\ log[j].activityType = "unshare" /\ log[j].fileId = resp.arg

C3_DuplicateRefused ==
    \A s \in UserShares : Active(s) =>
        \A ro \in GrantableRoles, x \in Expiries :
            \A r \in ShareWithUser(OwnerOfFile(s.fileId), s.fileId, s.sharedWithUserId, ro, x) :
                /\ r.status = 400 /\ r.err = "File already shared with this user"
                /\ Unchanged(r)

C3_AfterRevokeSucceeds ==
    Revoked => \A g \in UserShares : g.id = resp'.arg =>
        (\A ro \in GrantableRoles, x \in Expiries :
            (\A t \in x : t > now) =>
                LET out == ShareWithUser(OwnerOfFile(g.fileId), g.fileId,
                                         g.sharedWithUserId, ro, x)
                IN  /\ out # {}
                    /\ \A r \in out :
                          /\ r.status = 201
                          /\ \E n \in r.shares \ shares :
                                /\ n.fileId = g.fileId /\ n.shareType = "user"
                                /\ n.sharedWithUserId = g.sharedWithUserId
                                /\ n.role = ro /\ n.expiresAt = x)'

\* C3: with handlers run one after the other, POST /:fileId/user for a (file,
\* user) that has a stored, non-expired direct share answers 400 "File already
\* shared with this user" and changes nothing; right after that share is
\* revoked, the same request (valid role, expiry null or in the future) answers
\* 201 and inserts the new row.
C3_DuplicateThenRevoke ==
    []C3_DuplicateRefused /\ [][C3_AfterRevokeSucceeds]_vars

\* share, revoke, then share again with the same user succeeded
C3_Witness ==
    /\ resp.op = "shareWithUser" /\ resp.status = 201
    /\ \E i, j, k \in 1..Len(log) :
          /\ i < j /\ j < k
          /\ log[i].activityType = "share" /\ log[i].fileId = resp.arg
          /\ log[j].activityType = "unshare" /\ log[j].fileId = resp.arg
          /\ log[k] = log[i]
          /\ log[i].metadata[1] = "Shared with"

C7_DeletedIsGone ==
    \A id \in 1..nextFileId : FileRecord(id) = {} =>
        /\ \A s \in shares : s.fileId # id
        /\ \A i \in 1..Len(log) : log[i].fileId # id
        /\ \A u \in Users :
              /\ Statuses(GetFile(u, id)) = {404}
              /\ Statuses(Download(u, id)) = {404}
        /\ (resp.op \in {"getFile", "download"} /\ resp.arg = id) => resp.status = 404

C7_DeleteCascades ==
    \A id \in FileParams :
        (resp'.op = "deleteFile" /\ resp'.status = 200 /\ resp'.arg = id) =>
            /\ FileRecord(id) # {}
            /\ FileRecord(id)' = {}
            /\ \A s \in shares : s.fileId = id =>
                  /\ s \notin shares'
                  /\ s.shareType = "link" =>
                        \A u \in Users : (Statuses(AccessLink(u, s.token)) = {404})'
            /\ \A i \in 1..Len(log') : log'[i].fileId # id

C7_StaysGone ==
    /\ \A id \in 1..nextFileId : FileRecord(id) = {} => FileRecord(id)' = {}
    /\ \A t \in 1..nextShareId : \A u \in Users :
          Statuses(AccessLink(u, t)) = {404} => (Statuses(AccessLink(u, t)) = {404})'

\* C4: when POST /:fileId/user requests for the same (file, target user)
\* interleave at their awaits, the share table never holds two direct shares
\* for the same (file, target user). (ConcSpec: both requests pass the
\* existing-share query before either inserts, and the table has no unique
\* index on (file_id, shared_with_user_id), so both rows are stored and both
\* requests answer 201.)
C4_NoDuplicateDirectGrant ==
    \A s1 \in UserShares, s2 \in UserShares :
        (s1.fileId = s2.fileId /\ s1.sharedWithUserId = s2.sharedWithUserId)
            => s1 = s2

\* C7: a successful DELETE /:id removes the file row, every share row and every
\* activity row of the file; from then on GET /:id and GET /:id/download for
\* that id answer 404 for every user and GET /link/:token answers 404 for every
\* token a link share of the file held, in every later state.
C7_DeleteFileCascade ==
    []C7_DeletedIsGone /\ [][C7_DeleteCascades /\ C7_StaysGone]_vars

\* after the only file, which had shares, was deleted, a user asks for it: 404
C7_Witness ==
    /\ resp.op = "getFile" /\ resp.status = 404
    /\ resp.arg <= nextFileId /\ nextShareId > 0
    /\ files = {} /\ shares = {} /\ log = <<>>

\* the activity rows of the scenario
C8_Upload(f, u1) == LogRow(f, u1, "upload", <<>>)
C8_Share(f, u1, u2) == LogRow(f, u1, "share", <<"Shared with", u2>>)
C8_Unshare(f, u1, id) == LogRow(f, u1, "unshare", <<"Revoked share", ToString(id)>>)

\* what GET /:id answers u2 while the file's log is that of the scenario so far
C8_Resolves ==
    \A f \in FileParams, u1 \in Users, u2 \in Users :
        /\ ( /\ FileLog(log, f) = <<C8_Upload(f, u1), C8_Share(f, u1, u2)>>
             /\ \A s \in UserShares :
                   (s.fileId = f /\ s.sharedWithUserId = u2)
                   => s.role = "viewer" /\ s.expiresAt = {} )
           => /\ GetFile(u2, f) # {}
              /\ \A r \in GetFile(u2, f) :
                    r.status = 200 /\ r.role = "viewer" /\ Unchanged(r)
        /\ \A id \in ShareParams :
              FileLog(log, f) = <<C8_Upload(f, u1), C8_Share(f, u1, u2),
                                  C8_Unshare(f, u1, id)>>
              => \A r \in GetFile(u2, f) : r.status = 403 /\ Unchanged(r)

\* what each step of the scenario appends to the file's log
C8_Steps ==
    \A f \in FileParams, u1 \in Users :
        /\ (resp'.op = "upload" /\ resp'.status = 201 /\ resp'.user = u1
            /\ resp'.body = {f})
           => /\ FileLog(log', f) = <<C8_Upload(f, u1)>>
              /\ \E x \in files' : x.id = f /\ x.ownerId = u1
        /\ (resp'.op = "shareWithUser" /\ resp'.status = 201 /\ resp'.user = u1
            /\ resp'.arg = f /\ FileLog(log, f) = <<C8_Upload(f, u1)>>)
           => \E s \in shares' \ shares :
                 /\ s.fileId = f /\ s.shareType = "user" /\ s.role = resp'.role
                 /\ FileLog(log', f) =
                       <<C8_Upload(f, u1), C8_Share(f, u1, s.sharedWithUserId)>>
        /\ \A u2 \in Users :
              (Revoked /\ resp'.user = u1
               /\ FileLog(log, f) = <<C8_Upload(f, u1), C8_Share(f, u1, u2)>>
               /\ \E g \in shares : g.id = resp'.arg /\ g.fileId = f)
              => /\ FileLog(log', f) = <<C8_Upload(f, u1), C8_Share(f, u1, u2),
                                         C8_Unshare(f, u1, resp'.arg)>>
                 /\ \A s \in shares' : ~(s.fileId = f /\ s.sharedWithUserId = u2)
        /\ resp'.op = "getFile" => log' = log /\ shares' = shares /\ files' = files

\* C8: upload of f1 by u1 leaves f1's log <<upload(u1)>>; sharing f1 with u2 as
\* viewer then leaves <<upload(u1), share(u1)>> and GET /:id by u2 answers 200
\* with role viewer; revoking the share then leaves <<upload(u1), share(u1),
\* unshare(u1)>>, exactly and in that order, and GET /:id by u2 answers 403;
\* GET /:id itself writes nothing.
C8_ShareRevokeScenario == []C8_Resolves /\ [][C8_Steps]_vars

\* u2 was just refused f1, whose log is upload, share with u2, unshare
C8_Witness ==
    /\ resp.op = "getFile" /\ resp.status = 403
    /\ \E u1 \in Users, id \in ShareParams :
          /\ u1 # resp.user
          /\ FileLog(log, resp.arg) =
                <<C8_Upload(resp.arg, u1), C8_Share(resp.arg, u1, resp.user),
                  C8_Unshare(resp.arg, u1, id)>>

\* C9: a link share without expiry: GET /link/:token by any user answers 200
\* with role "viewer" and the share's file, and appends exactly one activity
\* row, a download whose user is the requester.
C9_LinkRedeemedByAnyUser ==
    \A s \in LinkShares : s.expiresAt = {} =>
        \A u \in Users :
            /\ AccessLink(u, s.token) # {}
            /\ \A r \in AccessLink(u, s.token) :
                  /\ r.status = 200 /\ r.role = "viewer" /\ r.body = {s.fileId}
                  /\ r.log = Append(log, LogRow(s.fileId, u, "download", <<>>))
                  /\ r.shares = shares /\ r.files = files

\* a user who did not create the link redeemed it, and the last activity row is theirs
C9_Witness ==
    /\ resp.op = "accessLink" /\ resp.status = 200 /\ resp.role = "viewer"
    /\ \E s \in LinkShares :
          /\ s.token = resp.arg /\ s.expiresAt = {} /\ s.createdBy # resp.user
          /\ log # <<>>
          /\ log[Len(log)] = LogRow(s.fileId, resp.user, "download", <<>>)

\* C10: POST /:fileId/user by the owner of the file with the owner's own email
\* answers 400 "Cannot share with yourself" for every grantable role and every
\* expiry, and leaves the share table and the activity log as they were.
C10_SelfGrantRefused ==
    /\ \A f \in files : \A ro \in {"viewer", "editor"}, x \in Expiries :
          \A r \in ShareWithUser(f.ownerId, f.id, f.ownerId, ro, x) :
              r.status = 400 /\ r.err = "Cannot share with yourself" /\ Unchanged(r)
    /\ \A s \in UserShares : s.sharedWithUserId # OwnerOfFile(s.fileId)

C10_Witness ==
    /\ resp.op = "shareWithUser" /\ resp.err = "Cannot share with yourself"
    /\ resp.user = OwnerOfFile(resp.arg)

\* an expiry the request carries that is not after now
NotAfterNow(expiresAt) == \E t \in expiresAt : t <= now

C11_ExpiryRefused ==
    \A f \in files : \A x \in Expiries : NotAfterNow(x) =>
        /\ \A r \in GenerateLink(f.ownerId, f.id, x) :
              /\ r.status = 400 /\ r.err = "Expiration date must be in the future"
              /\ Unchanged(r)
        /\ \A e \in Users, ro \in GrantableRoles :
              \A r \in ShareWithUser(f.ownerId, f.id, e, ro, x) :
                  /\ r.status = 400 /\ Unchanged(r)
                  /\ (e # f.ownerId /\ ~\E s \in UserShares :
                                          s.fileId = f.id /\ s.sharedWithUserId = e)
                     => r.err = "Expiration date must be in the future"

C11_CreatedInFuture ==
    \A s \in shares' \ shares : \A t \in s.expiresAt : t > now'

\* C11: POST /:fileId/user and POST /:fileId/link by the file's owner with an
\* expiresAt that is not after now answer 400 and store nothing (the error is
\* "Expiration date must be in the future" whenever the earlier checks of the
\* handler pass), and every share row is inserted with expiresAt null or after
\* the time of its insertion.
C11_NoGrantCreatedExpired == []C11_ExpiryRefused /\ [][C11_CreatedInFuture]_vars

\* a request was just refused for its expiry, after time has passed
C11_Witness ==
    /\ resp.op \in {"shareWithUser", "generateLink"} /\ resp.status = 400
    /\ resp.err = "Expiration date must be in the future"
    /\ now > 0

\* C12: POST /:fileId/user and POST /:fileId/link by a user who is not the
\* file's owner answer 403 ("Only file owner can ...") and leave the share table
\* and the activity log as they were, for every target, role and expiry; and
\* createdBy of every stored share is the owner of the share's file.
C12_NotOwnerRefused ==
    /\ \A f \in files : \A u \in Users \ {f.ownerId} :
          /\ \A x \in Expiries : \A r \in GenerateLink(u, f.id, x) :
                /\ r.status = 403 /\ Unchanged(r)
                /\ r.err = "Only file owner can generate share links"
          /\ \A e \in Users \cup {UnknownEmail}, ro \in GrantableRoles, x \in Expiries :
                \A r \in ShareWithUser(u, f.id, e, ro, x) :
                    /\ r.status = 403 /\ Unchanged(r)
                    /\ r.err = "Only file owner can share files"
    /\ \A s \in shares : \A f \in files : f.id = s.fileId => s.createdBy = f.ownerId
    /\ \A f \in files :
          (resp.op \in {"shareWithUser", "generateLink"} /\ resp.arg = f.id
           /\ resp.user # f.ownerId) => resp.status \in {400, 403}

\* a user who does not own the file was just refused a share link for it, while
\* the owner's shares of the file are stored
C12_Witness ==
    /\ resp.op = "generateLink" /\ resp.status = 403
    /\ \E f \in files : f.id = resp.arg /\ f.ownerId # resp.user
    /\ \E s \in shares : s.fileId = resp.arg

\* C13: DELETE /:shareId answers 404 "Share not found" and changes nothing when
\* no share row has that id; answers 403 and changes nothing (the row stays, no
\* activity row is written) when the caller does not own the share's file; and
\* for the owner answers 200 and removes that row and no other.
C13_RevokeExactlyThatGrant ==
    /\ \A id \in ShareParams : (\A s \in shares : s.id # id) =>
          \A u \in Users : \A r \in RevokeShare(u, id) :
              r.status = 404 /\ r.err = "Share not found" /\ Unchanged(r)
    /\ \A s \in shares : \A f \in files : f.id = s.fileId =>
          /\ \A u \in Users \ {f.ownerId} : \A r \in RevokeShare(u, s.id) :
                /\ r.status = 403 /\ r.err = "Only file owner can revoke shares"
                /\ Unchanged(r)
          /\ RevokeShare(f.ownerId, s.id) # {}
          /\ \A r \in RevokeShare(f.ownerId, s.id) :
                /\ r.status = 200
                /\ r.shares = shares \ {s}
                /\ r.files = files /\ r.blobs = blobs

\* the owner just revoked one share of a file and another share of it is stored
C13_Witness ==
    /\ resp.op = "revokeShare" /\ resp.status = 200
    /\ log # <<>> /\ log[Len(log)].activityType = "unshare"
    /\ \E s \in shares : s.fileId = log[Len(log)].fileId /\ s.id # resp.arg

\* C14: GET /:fileId/shares answers 403 to every user who does not own the file;
\* to the owner it answers 200 with every stored share of the file, expired or
\* not, and with no share of another file. It changes nothing.
C14_ListGrantsOwnerOnly ==
    /\ \A f \in files :
          /\ \A u \in Users \ {f.ownerId} : \A r \in ListShares(u, f.id) :
                r.status = 403 /\ r.body = {} /\ Unchanged(r)
          /\ ListShares(f.ownerId, f.id) # {}
          /\ \A r \in ListShares(f.ownerId, f.id) :
                /\ r.status = 200 /\ Unchanged(r)
                /\ \A s \in shares : s \in r.body <=> s.fileId = f.id
                /\ r.body \subseteq shares
    /\ \A f \in files : (resp.op = "listShares" /\ resp.arg = f.id) =>
          IF resp.user = f.ownerId
          THEN resp.status = 200 /\ resp.body = {s \in shares : s.fileId = f.id}
          ELSE resp.status = 403 /\ resp.body = {}

\* the owner was just shown an expired share and a live one of the same file
C14_Witness ==
    /\ resp.op = "listShares" /\ resp.status = 200
    /\ \E s \in resp.body : InPast(s.expiresAt)
    /\ \E s \in resp.body : ~InPast(s.expiresAt)

\* C15: no stored share has role "owner" and every link share has role
\* "viewer"; POST /:fileId/user with role "owner" answers 400 ("Invalid role"
\* when userEmail is present) and stores nothing, whoever sends it and whatever
\* the target and expiry.
C15_NoOwnerGrant ==
    /\ \A s \in shares : s.role \in {"viewer", "editor"}
    /\ \A s \in LinkShares : s.role = "viewer"
    /\ \A f \in files, u \in Users, e \in Emails, x \in Expiries :
          \A r \in ShareWithUser(u, f.id, e, "owner", x) :
              /\ r.status = 400 /\ Unchanged(r)
              /\ e # MissingEmail => r.err = "Invalid role"
    /\ resp.op \in {"shareWithUser", "generateLink"} => resp.role # "owner"

\* the owner of a file was just refused a share of it with role "owner"
C15_Witness ==
    /\ resp.op = "shareWithUser" /\ resp.status = 400 /\ resp.err = "Invalid role"
    /\ \E f \in files : f.id = resp.arg /\ f.ownerId = resp.user

\* C16: when two non-expired direct shares are stored for the same (file, user),
\* GET /:id and GET /:id/download by that user answer 403, never 200 with the
\* role of one of the rows. (The handlers take whichever row findFirst returns:
\* with the two rows that interleaved POST /:fileId/user requests leave, the
\* answer is 200 with that row's role.)
C16_DuplicateGrantsDenied ==
    \A s1 \in UserShares, s2 \in UserShares :
        ( /\ s1 # s2 /\ s1.fileId = s2.fileId
          /\ s1.sharedWithUserId = s2.sharedWithUserId
          /\ Active(s1) /\ Active(s2) )
        => /\ \A r \in GetFile(s1.sharedWithUserId, s1.fileId) : r.status = 403
           /\ \A r \in Download(s1.sharedWithUserId, s1.fileId) : r.status = 403

\* C17: when every direct share stored for a (file, user) has expired, POST
\* /:fileId/user by the owner for that user, with a valid role and an expiry
\* that is null or in the future, answers 201 and stores the new share. (The
\* existingShare query has no expiry filter, so the handler answers 400 "File
\* already shared with this user".)
C17_ExpiredGrantDoesNotBlock ==
    \A s \in UserShares : \A f \in files :
        ( /\ f.id = s.fileId
          /\ \A o \in UserShares :
                (o.fileId = s.fileId /\ o.sharedWithUserId = s.sharedWithUserId)
                => InPast(o.expiresAt) )
        => \A ro \in GrantableRoles, x \in Expiries :
              (\A t \in x : t > now) =>
                  \A r \in ShareWithUser(f.ownerId, f.id, s.sharedWithUserId, ro, x) :
                      /\ r.status = 201
                      /\ \E n \in r.shares \ shares :
                            /\ n.fileId = f.id /\ n.role = ro
                            /\ n.sharedWithUserId = s.sharedWithUserId

\* C18: no state holds a "delete" activity row for a file whose row is still
\* stored. (DELETE /:id inserts the "delete" row before it deletes the file row:
\* when db.delete(file) throws, the row stays, logged as deleted and with its
\* blob destroyed.)
C18_DeleteLoggedAfterDeletion ==
    \A i \in 1..Len(log) :
        log[i].activityType = "delete" => FileRecord(log[i].fileId) = {}

\* C19: a POST /:fileId/user, POST /:fileId/link or DELETE /:shareId that has
\* changed the share table answers 201 or 200, also when its logActivity call
\* throws. (The call is inside the handler's try block: the catch answers 500,
\* and the inserted or deleted row stays as it is.)
C19_AuditFailureStillSucceeds ==
    [][(resp'.op \in {"shareWithUser", "generateLink", "revokeShare"}
        /\ shares' # shares) => resp'.status \in {200, 201}]_vars

\* the JSON a response carries (not its status code)
Payload(r) == [err |-> r.err, role |-> r.role, body |-> r.body]
\* an id that no file row has, in any state
AbsentFile == MaxFiles + 1

\* C20: for a user who neither owns a stored file nor has a non-expired direct
\* share of it, the payload of GET /:id and of GET /:id/download for that file
\* is the payload the same request gets when no such file is stored. (It is
\* not: {"error": "Access denied"} against {"error": "File not found"}.)
C20_AbsenceIndistinguishable ==
    \A f \in files : \A u \in Users \ {f.ownerId} :
        (~\E s \in UserShares :
              s.fileId = f.id /\ s.sharedWithUserId = u /\ Active(s))
        => /\ {Payload(r) : r \in GetFile(u, f.id)}
                = {Payload(r) : r \in GetFile(u, AbsentFile)}
           /\ {Payload(r) : r \in Download(u, f.id)}
                = {Payload(r) : r \in Download(u, AbsentFile)}

\* the activity rows a 200 response of an activity query carries
Entries(r) == IF r.status = 200 THEN {r.body[i] : i \in 1..Len(r.body)} ELSE {}
\* the row is on a file of u, or u is its actor
MayRead(u, e) == e.userId = u \/ \E f \in files : f.id = e.fileId /\ f.ownerId = u

\* C21: GET /activity/files/:fileId answers 403 without rows to every user who
\* does not own the file and gives the owner the file's rows and no others; GET
\* /activity/user returns only rows whose user is the requester; and no
\* activity query returns to a user a row that is neither on a file the user
\* owns nor has the user as its actor.
C21_AuditReadRestricted ==
    /\ \A f \in files :
          /\ \A u \in Users \ {f.ownerId} : \A r \in FileActivity(u, f.id) :
                r.status = 403 /\ r.body = {} /\ Unchanged(r)
          /\ \A r \in FileActivity(f.ownerId, f.id) :
                /\ r.status = 200 /\ Unchanged(r)
                /\ Entries(r) = {log[i] : i \in {j \in 1..Len(log) : log[j].fileId = f.id}}
    /\ \A u \in Users :
          /\ \A r \in UserActivity(u) : \A e \in Entries(r) : e.userId = u
          /\ \A r \in UserActivity(u) \cup AllActivity(u)
                      \cup UNION {FileActivity(u, id) : id \in FileParams} :
                \A e \in Entries(r) : MayRead(u, e)
    /\ resp.op \in {"fileActivity", "userActivity", "allActivity"} =>
          \A e \in Entries(resp) : MayRead(resp.user, e)

\* a user who downloaded a file of another user was just refused its history
C21_Witness ==
    /\ resp.op = "fileActivity" /\ resp.status = 403
    /\ \E i \in 1..Len(log) :
          /\ log[i].fileId = resp.arg /\ log[i].userId = resp.user
          /\ log[i].activityType = "download"
    /\ \E i \in 1..Len(log) : log[i].fileId = resp.arg /\ log[i].userId # resp.user

\* lg1 is the beginning of lg2
IsPrefix(lg1, lg2) == Len(lg1) <= Len(lg2) /\ SubSeq(lg2, 1, Len(lg1)) = lg1

C22_EntriesStay ==
    \A id \in FileParams :
        (FileRecord(id) # {} /\ (FileRecord(id) # {})')
        => IsPrefix(FileLog(log, id), FileLog(log', id))

C22_OnlyCascadeRemoves ==
    \A id \in FileParams :
        ~IsPrefix(FileLog(log, id), FileLog(log', id))
        => /\ resp'.op = "deleteFile" /\ resp'.status = 200 /\ resp'.arg = id
           /\ (FileRecord(id) = {})' /\ FileLog(log', id) = <<>>

\* C22: in every step, while a file's row stays stored, the activity rows of
\* the file stay in the log, in their order and with their file, user, type and
\* metadata; new rows come after them. Rows of a file leave the log only in the
\* step of a successful DELETE /:id of that file, and then all of them.
C22_AuditAppendOnly == [][C22_EntriesStay /\ C22_OnlyCascadeRemoves]_vars

\* the same user downloaded the same file a second time: both rows are stored
C22_Witness ==
    /\ resp.op = "download" /\ resp.status = 200
    /\ \E i, j \in 1..Len(log) :
          /\ i < j /\ log[i] = log[j] /\ log[j].activityType = "download"
          /\ log[j].fileId = resp.arg /\ log[j].userId = resp.user

C23_UnknownTokenNotFound ==
    \A t \in ShareParams : (\A s \in LinkShares : s.token # t) =>
        \A u \in Users : \A r \in AccessLink(u, t) :
            r.status = 404 /\ r.err = "Share link not found" /\ Unchanged(r)

C23_RevokedTokenNotFound ==
    Revoked => \A g \in LinkShares : g.id = resp'.arg =>
        \A u \in Users : (Statuses(AccessLink(u, g.token)) = {404})'

C23_NeverAgain ==
    \A t \in 1..nextShareId :
        (\A s \in LinkShares : s.token # t) => (\A s \in LinkShares : s.token # t)'

\* C23: GET /link/:token answers 404 "Share link not found" and changes nothing
\* for every token that no stored link share holds; right after the DELETE
\* /:shareId of a link share its token answers 404 for every user; and a token
\* that was issued and is no longer stored is never stored again, so it
\* answers 404 in every later state.
C23_RevokedLinkNotFound ==
    []C23_UnknownTokenNotFound /\ [][C23_RevokedTokenNotFound /\ C23_NeverAgain]_vars

\* the only share ever made was a link; it was revoked, and its token was just
\* answered 404
C23_Witness ==
    /\ resp.op = "accessLink" /\ resp.status = 404 /\ resp.arg = 1
    /\ nextShareId = 1 /\ shares = {}
    /\ \E i, j \in 1..Len(log) :
          /\ i < j
          /\ log[i].activityType = "share" /\ log[i].metadata = <<"Generated share link">>
          /\ log[j].activityType = "unshare"

C24_TokensUnique ==
    \A s1 \in LinkShares, s2 \in LinkShares : s1.token = s2.token => s1 = s2

C24_CollisionStoresNothing ==
    \A f \in files : \A x \in Expiries :
        \A r \in GenerateLink(f.ownerId, f.id, x) :
            IF r.status = 201
            THEN \E n \in r.shares \ shares :
                    /\ r.shares = shares \cup {n} /\ r.body = {n.token}
                    /\ \A s \in shares : s.token # n.token
            ELSE Unchanged(r)

C24_TokenFixed ==
    \A s \in shares : \A n \in shares' : n.id = s.id => n = s

\* C24: no two stored link shares hold the same token (direct shares hold
\* none); a stored share row keeps its token, like every other column, in every
\* step until the row is removed; and a POST /:fileId/link whose generated
\* token is one a stored row holds stores nothing (it answers 500).
C24_TokenUniqueAndFixed ==
    [](C24_TokensUnique /\ C24_CollisionStoresNothing) /\ [][C24_TokenFixed]_vars

\* a link request was just refused for its token while a link share is stored
C24_Witness ==
    /\ resp.op = "generateLink" /\ resp.status = 500
    /\ resp.err = "Share link generation failed"
    /\ LinkShares # {}

\* C27: with DELETE /:id interleaved at its awaits with POST /:fileId/user,
\* DELETE /:shareId and their activity writes, every stored share row and every
\* stored activity row is of a file whose row is stored.
C27_NoOrphans ==
    /\ \A s \in shares : FileRecord(s.fileId) # {}
    /\ \A i \in 1..Len(log) : FileRecord(log[i].fileId) # {}

\* a share request that had passed its checks was answered 500: the file was
\* deleted before its insert
C27_Witness ==
    \E i \in 1..MaxReqs :
        /\ reqs[i].pc = "done" /\ reqs[i].op = "shareWithUser"
        /\ reqs[i].status = 500 /\ FileRecord(reqs[i].arg) = {}

\* C25: however DELETE /:shareId requests for the same share interleave, the
\* log holds at most one "unshare" row for that share. (Two requests that
\* both read the row before either deletes it both pass, both delete and both
\* log: two rows, and two 200 answers.)
C25_OneUnsharePerGrant ==
    \A id \in ShareParams :
        Cardinality({i \in 1..Len(log) :
                        /\ log[i].activityType = "unshare"
                        /\ log[i].metadata = <<"Revoked share", ToString(id)>>}) <= 1

\* C26: POST /upload either answers 201 and leaves the new file row, its blob
\* and its "upload" activity row stored, or leaves the file table, the blobs and
\* the log as they were. (When logActivity or fs.unlinkSync throws after the
\* row was inserted, the catch destroys the blob and the row stays: the answer
\* is 500 and the store holds a file row without a blob.)
C26_UploadAllOrNothing ==
    [][resp'.op = "upload" =>
          IF resp'.status = 201
          THEN \E f \in files' \ files :
                  /\ f.cloudinaryId \in blobs'
                  /\ log' = Append(log, LogRow(f.id, f.ownerId, "upload", <<>>))
          ELSE files' = files /\ blobs' = blobs /\ log' = log]_vars

\* C30: when cloudinary.uploader.destroy throws in DELETE /:id, the answer is
\* 500 and the file row, the blob, the shares and the log are as before, with
\* no "delete" row added; the users with a direct share of the file are still
\* answered 200 with their role by GET /:id.
C30_BlobFailureUnchanged ==
    /\ \A f \in files : \A r \in DeleteFileBlobFails(f.ownerId, f.id) :
          r.status = 500 /\ Unchanged(r)
    /\ \A f \in files :
          (resp.op = "deleteFile" /\ resp.arg = f.id /\ resp.err = CloudinaryError)
          => /\ resp.status = 500
             /\ \A s \in UserShares : (s.fileId = f.id /\ Active(s)) =>
                   \A r \in GetFile(s.sharedWithUserId, f.id) :
                       r.status = 200 /\ r.role = s.role

C30_NothingWritten ==
    (resp'.op = "deleteFile" /\ resp'.err = CloudinaryError)
    => /\ UNCHANGED <<files, blobs, shares, log>>
       /\ \E f \in files' : f.id = resp'.arg

C30_BlobFailureKeepsFile == []C30_BlobFailureUnchanged /\ [][C30_NothingWritten]_vars

\* the blob of a shared file could not be destroyed: the delete was refused
C30_Witness ==
    /\ resp.op = "deleteFile" /\ resp.status = 500 /\ resp.err = CloudinaryError
    /\ \E s \in UserShares : s.fileId = resp.arg
    /\ \E f \in files : f.id = resp.arg /\ f.cloudinaryId \in blobs

DownloadRows(lg) == SelectSeq(lg, LAMBDA e : e.activityType = "download")

\* a request that is not answered 200 or 201 writes nothing
C28_FailureStep ==
    (resp = NoResp /\ resp'.status \notin {0, 200, 201})
    => UNCHANGED <<files, blobs, shares, log, nextFileId, nextShareId>>

\* a "download" row is new only after a 200 answer of GET /:id/download or
\* GET /link/:token, and it is the one row added, with the requester as userId
C28_DownloadStep ==
    /\ Len(DownloadRows(log')) > Len(DownloadRows(log))
       => resp'.op \in {"download", "accessLink"} /\ resp'.status = 200
    /\ (resp = NoResp /\ resp'.op \in {"download", "accessLink"})
       => IF resp'.status = 200
          THEN \E id \in resp'.body :
                  log' = Append(log, LogRow(id, resp'.user, "download", <<>>))
          ELSE log' = log

\* C28: a request answered 400, 403, 404 or 500 (not found, denied, not the
\* owner, self share, duplicate share, expiry in the past, or the share insert
\* rejected by the unique token index) leaves the file, share and activity
\* tables as they were; a "download" row is added only by an allowed download
\* or link access, exactly one, with the requester as userId.
C28_FailuresWriteNothing ==
    [][C28_FailureStep /\ C28_DownloadStep]_vars

\* a download was refused although the log already has rows
C28_Witness ==
    /\ resp.op = "download" /\ resp.status = 403
    /\ \E f \in files : f.id = resp.arg
    /\ log # <<>>
    /\ DownloadRows(log) = <<>>

\* C29: DELETE /:id by a user who is not the file's owner, a user with an
\* active editor share included, is answered 403 and leaves the file row, the
\* blob, the shares and the activity rows as they were.
C29_OnlyOwnerDeletes ==
    /\ \A f \in files : \A u \in Users \ {f.ownerId} :
          \A r \in DeleteFile(u, f.id) :
              r.status = 403 /\ r.err = "Only owner can delete" /\ Unchanged(r)
    /\ \A f \in files :
          (resp.op = "deleteFile" /\ resp.arg = f.id /\ resp.user # f.ownerId)
          => resp.status = 403 /\ f.cloudinaryId \in blobs

C29_RefusedStep ==
    (resp = NoResp /\ resp'.op = "deleteFile"
        /\ \E f \in files : f.id = resp'.arg /\ f.ownerId # resp'.user)
    => resp'.status = 403 /\ UNCHANGED <<files, blobs, shares, log>>

C29_OnlyOwnerCanDelete == []C29_OnlyOwnerDeletes /\ [][C29_RefusedStep]_vars

\* a user with an active editor share of the file was refused
C29_Witness ==
    /\ resp.op = "deleteFile" /\ resp.status = 403
    /\ \E s \in UserShares :
          /\ s.fileId = resp.arg /\ s.sharedWithUserId = resp.user
          /\ s.role = "editor" /\ Active(s)
    /\ \E f \in files : f.id = resp.arg /\ f.cloudinaryId \in blobs

====
